---- MODULE Spec2Model ----
(***************************************************************************)
(* Model of the eBay search analyzer: scrape_ebay_results (src/scraper.py) *)
(* with its retry loop and item extraction, analyze_keywords and           *)
(* suggest_title (src/text_analyzer.py).                                   *)
(*                                                                         *)
(* Strings are sequences of one-character strings.  The character written  *)
(* "eszett" stands for U+00DF, one character whose title-case form is the  *)
(* two characters "Ss" (Python str.title() uses the full case mapping).    *)
(***************************************************************************)
EXTENDS Integers, Sequences, FiniteSets, TLC

VARIABLES url, attempt, pc, gets, response, log, titles, prices, error,
          tokens, keyword_freq, agg_pc,
          st_freq, max_length, title, suggested, st_pc

vars == <<url, attempt, pc, gets, response, log, titles, prices, error,
          tokens, keyword_freq, agg_pc,
          st_freq, max_length, title, suggested, st_pc>>

scrapeVars == <<url, attempt, pc, gets, response, log, titles, prices, error>>
aggVars == <<tokens, keyword_freq, agg_pc>>
titleVars == <<st_freq, max_length, title, suggested, st_pc>>

(***************************************************************************)
(* Bounds of the model.                                                    *)
(***************************************************************************)
MaxShort == 2
LongExtra == 2
MaxTokens == 5
MaxKeys == 2
MaxFreq == 2
MaxLength == 32
LongKeys == 11

(***************************************************************************)
(* Program constants.                                                      *)
(***************************************************************************)
max_retries == 3
MaxResults == 60
TopN == 10
SuffixRoom == 15

(***************************************************************************)
(* String helpers.                                                         *)
(***************************************************************************)
Min(a, b) == IF a <= b THEN a ELSE b

SetMin(S) == CHOOSE x \in S : \A y \in S : x <= y

SetMax(S) == CHOOSE x \in S : \A y \in S : y <= x

Take(s, n) == SubSeq(s, 1, Min(n, Len(s)))

Whitespace == {" ", "\n", "\t"}

Digits == {"0", "1", "2", "3", "4", "5", "6", "7", "8", "9"}

\* sub in s
Contains(sub, s) ==
    \E i \in 0..(Len(s) - Len(sub)) : SubSeq(s, i + 1, i + Len(sub)) = sub

\* str.strip()
Strip(s) ==
    LET idx == {i \in 1..Len(s) : s[i] \notin Whitespace}
    IN IF idx = {} THEN <<>> ELSE SubSeq(s, SetMin(idx), SetMax(idx))

\* str.replace(',', '')
RECURSIVE RemoveCommas(_)
RemoveCommas(s) ==
    IF s = <<>> THEN <<>>
    ELSE IF Head(s) = "," THEN RemoveCommas(Tail(s))
    ELSE <<Head(s)>> \o RemoveCommas(Tail(s))

DigitVal(c) ==
    CASE c = "0" -> 0 [] c = "1" -> 1 [] c = "2" -> 2 [] c = "3" -> 3
      [] c = "4" -> 4 [] c = "5" -> 5 [] c = "6" -> 6 [] c = "7" -> 7
      [] c = "8" -> 8 [] c = "9" -> 9

\* value of a digit string, the empty string counting as 0 (float(".50") = 0.5)
RECURSIVE DigitsVal(_)
DigitsVal(s) ==
    IF s = <<>> THEN 0
    ELSE 10 * DigitsVal(SubSeq(s, 1, Len(s) - 1)) + DigitVal(s[Len(s)])

\* float("ddd.dd"), as an exact number of cents
FloatCents(s) ==
    LET n == Len(s)
    IN 100 * DigitsVal(SubSeq(s, 1, n - 3)) + DigitsVal(SubSeq(s, n - 1, n))

\* end of the maximal run of [\d,] that starts at position i (i - 1 if none)
RECURSIVE RunEnd(_, _)
RunEnd(s, i) ==
    IF i <= Len(s) /\ s[i] \in Digits \cup {","} THEN RunEnd(s, i + 1)
    ELSE i - 1

\* the regular expression [\d,]+\.\d{2} matches at position i
MatchAt(s, i) ==
    LET e == RunEnd(s, i)
    IN /\ e >= i
       /\ e + 3 <= Len(s)
       /\ s[e + 1] = "."
       /\ s[e + 2] \in Digits
       /\ s[e + 3] \in Digits

\* re.search(r'[\d,]+\.\d{2}', s): the leftmost match, <<>> standing for None
ReSearch(s) ==
    LET starts == {i \in 1..Len(s) : MatchAt(s, i)}
    IN IF starts = {} THEN <<>>
       ELSE LET i == SetMin(starts) IN SubSeq(s, i, RunEnd(s, i) + 3)

(***************************************************************************)
(* Extractor: src/scraper.py                                               *)
(***************************************************************************)
None == [some |-> FALSE, cents |-> 0]

Some(c) == [some |-> TRUE, cents |-> c]

NoElem == [present |-> FALSE, text |-> <<>>]

Elem(t) == [present |-> TRUE, text |-> t]

\* extract_price: None for a missing element or a text without the pattern
extract_price(price_elem) ==
    IF ~price_elem.present THEN None
    ELSE LET price_match == ReSearch(Strip(price_elem.text))
         IN IF price_match # <<>> THEN Some(FloatCents(RemoveCommas(price_match)))
            ELSE None

Placeholder == <<"S", "h", "o", "p", " ", "o", "n", " ", "e", "B", "a", "y">>

\* the placeholder test as a comparison of the whole title text
TitleAccepted_equal(title_elem) ==
    title_elem.present /\ title_elem.text # Placeholder

\* if title_elem and 'Shop on eBay' not in title_elem.text
TitleAccepted(title_elem) ==
    title_elem.present /\ ~Contains(Placeholder, title_elem.text)

\* the price appended for every item, outside the title test
ScrapeItem_unguarded(item) ==
    IF TitleAccepted(item.title)
    THEN [titles |-> <<Strip(item.title.text)>>,
          prices |-> <<extract_price(item.price)>>]
    ELSE [titles |-> <<>>, prices |-> <<extract_price(item.price)>>]

\* the body of the loop over the item containers: what one item appends
ScrapeItem(item) ==
    IF TitleAccepted(item.title)
    THEN [titles |-> <<Strip(item.title.text)>>,
          prices |-> <<extract_price(item.price)>>]
    ELSE [titles |-> <<>>, prices |-> <<>>]

\* the loop over the item containers: the appends of the items in document
\* order (the sequence is split in halves to keep the recursion shallow)
RECURSIVE ScrapeItems(_)
ScrapeItems(items) ==
    IF items = <<>> THEN [titles |-> <<>>, prices |-> <<>>]
    ELSE IF Len(items) = 1 THEN ScrapeItem(items[1])
    ELSE LET h == Len(items) \div 2
             a == ScrapeItems(SubSeq(items, 1, h))
             b == ScrapeItems(SubSeq(items, h + 1, Len(items)))
         IN [titles |-> a.titles \o b.titles, prices |-> a.prices \o b.prices]

(***************************************************************************)
(* Inputs of the scraper.                                                  *)
(***************************************************************************)
Str_Shop == Placeholder

Str_Anime == <<"A", "n", "i", "m", "e">>

Price_999 == <<"$", "9", ".", "9", "9">>

Price_Big == <<"$", "1", "2", ",", "3", "4", "5", ".", "6", "7">>

Price_Zero == <<"$", "0", ".", "0", "0">>

Price_Free == <<"F", "r", "e", "e">>

Price_Short == <<"1", ".", "5">>

Title_Padded == <<" ">> \o Str_Anime \o <<"\n">>

Title_Longer == <<"D", "V", "D", " ">> \o Str_Shop \o <<" ", "x">>

Node(t, p) == [title |-> t, price |-> p]

\* item containers ('.s-item__wrapper') a page is made of
ItemNodes ==
    { Node(Elem(Str_Anime), Elem(Price_999)),
      Node(Elem(Title_Padded), NoElem),
      Node(Elem(Str_Shop), Elem(Price_Zero)),
      Node(Elem(Title_Longer), Elem(Price_Big)),
      Node(NoElem, Elem(Price_Short)),
      Node(Elem(<<>>), Elem(Price_Free)),
      Node(Elem(<<" ", " ">>), Elem(Price_999)),
      Node(Elem(Str_Anime), Elem(Price_Zero)),
      Node(Elem(Str_Anime), Elem(Price_Short)) }

\* item nodes the long pages are made of
LongNodes ==
    { Node(Elem(Str_Anime), Elem(Price_999)),
      Node(Elem(Title_Padded), NoElem),
      Node(Elem(Str_Shop), Elem(Price_Zero)),
      Node(NoElem, Elem(Price_Short)) }

SeqsUpTo(S, n) == UNION {[1..k -> S] : k \in 0..n}

\* the pattern pat repeated up to length n
Cycle(pat, n) == [i \in 1..n |-> pat[((i - 1) % Len(pat)) + 1]]

ShortPages == SeqsUpTo(ItemNodes, MaxShort)

LongPages ==
    { Cycle(pat, n) : pat \in (SeqsUpTo(LongNodes, 2) \ {<<>>}),
                      n \in (MaxResults - 1)..(MaxResults + LongExtra) }

Pages == ShortPages \cup LongPages

Str_ipg == <<"_", "i", "p", "g", "=">>

Urls ==
    { <<"u">>,
      <<"u", "?", "q">>,
      <<"u", "?">> \o Str_ipg \o <<"5">> }

ErrorTexts == {"e1", "e2"}

NoError == [kind |-> "none", attempts |-> 0, text |-> ""]

NoResponse == [status |-> "none", items |-> <<>>]

\* url += '&_ipg=60' if '?' in url else '?_ipg=60', when '_ipg=' not in url
WithPageSize(u) ==
    IF ~Contains(Str_ipg, u)
    THEN IF Contains(<<"?">>, u)
         THEN u \o <<"&">> \o Str_ipg \o <<"6", "0">>
         ELSE u \o <<"?">> \o Str_ipg \o <<"6", "0">>
    ELSE u

(***************************************************************************)
(* Fetcher: the retry loop of scrape_ebay_results.                         *)
(* pc: "loop" at the head of an iteration, "parse" after a successful GET, *)
(* "returned" and "raised" after the call has ended.  log holds, in order, *)
(* the exceptions raised inside the try block.  The delay before a retry    *)
(* (time.sleep) changes no state and is left out.                          *)
(***************************************************************************)
Raised(kind, text) == [kind |-> kind, text |-> text]

\* giving up one attempt early
IsLastAttempt_early(a) == a >= max_retries - 2

\* if attempt == max_retries - 1
IsLastAttempt(a) == a = max_retries - 1

\* except requests.RequestException as e
OnRequestException(e) ==
    /\ log' = Append(log, Raised("request", e))
    /\ IF IsLastAttempt(attempt)
       THEN /\ pc' = "raised"
            /\ error' = [kind |-> "fetch", attempts |-> max_retries, text |-> e]
            /\ UNCHANGED attempt
       ELSE /\ attempt' = attempt + 1
            /\ UNCHANGED <<pc, error>>

\* except Exception as e
OnException(e) ==
    /\ log' = Append(log, Raised("other", e))
    /\ pc' = "raised"
    /\ error' = [kind |-> "process", attempts |-> 0, text |-> e]
    /\ UNCHANGED attempt

\* an exception that is no RequestException handled as a transport failure
OnGetException_retry(e) ==
    /\ log' = Append(log, Raised("other", e))
    /\ IF IsLastAttempt(attempt)
       THEN /\ pc' = "raised"
            /\ error' = [kind |-> "process", attempts |-> 0, text |-> e]
            /\ UNCHANGED attempt
       ELSE /\ attempt' = attempt + 1
            /\ UNCHANGED <<pc, error>>

\* requests.get raises an exception that is no RequestException
OnGetException(e) == OnException(e)

AtLoopHead == pc = "loop" /\ attempt < max_retries

\* requests.get raises a RequestException (connection error, timeout)
GetConnError ==
    /\ AtLoopHead
    /\ url' = WithPageSize(url)
    /\ gets' = gets + 1
    /\ \E e \in ErrorTexts : OnRequestException(e)
    /\ UNCHANGED <<response, titles, prices>>
    /\ UNCHANGED <<aggVars, titleVars>>

\* requests.get answers with an error status: raise_for_status raises HTTPError
GetHttpError ==
    /\ AtLoopHead
    /\ url' = WithPageSize(url)
    /\ gets' = gets + 1
    /\ response' = [status |-> "error", items |-> <<>>]
    /\ \E e \in ErrorTexts : OnRequestException(e)
    /\ UNCHANGED <<titles, prices>>
    /\ UNCHANGED <<aggVars, titleVars>>

\* requests.get raises some other exception
GetOtherError ==
    /\ AtLoopHead
    /\ url' = WithPageSize(url)
    /\ gets' = gets + 1
    /\ \E e \in ErrorTexts : OnGetException(e)
    /\ UNCHANGED <<response, titles, prices>>
    /\ UNCHANGED <<aggVars, titleVars>>

\* requests.get answers with a success status
GetOk ==
    /\ AtLoopHead
    /\ url' = WithPageSize(url)
    /\ gets' = gets + 1
    /\ \E page \in Pages : response' = [status |-> "ok", items |-> page]
    /\ pc' = "parse"
    /\ UNCHANGED <<attempt, log, titles, prices, error>>
    /\ UNCHANGED <<aggVars, titleVars>>

\* the return statement left outside the for loop
Extract_afterLoop ==
    /\ pc = "parse"
    /\ LET r == ScrapeItems(response.items)
       IN /\ titles' = Take(r.titles, MaxResults)
          /\ prices' = Take(r.prices, MaxResults)
    /\ IF attempt < max_retries - 1
       THEN attempt' = attempt + 1 /\ pc' = "loop"
       ELSE pc' = "returned" /\ UNCHANGED attempt
    /\ UNCHANGED <<url, gets, response, log, error>>
    /\ UNCHANGED <<aggVars, titleVars>>

\* parsing, the loop over the items, return titles[:60], prices[:60]
Extract ==
    /\ pc = "parse"
    /\ LET r == ScrapeItems(response.items)
       IN /\ titles' = Take(r.titles, MaxResults)
          /\ prices' = Take(r.prices, MaxResults)
    /\ pc' = "returned"
    /\ UNCHANGED <<url, attempt, gets, response, log, error>>
    /\ UNCHANGED <<aggVars, titleVars>>

\* processing the response raises
ProcessFail ==
    /\ pc = "parse"
    /\ \E e \in ErrorTexts : OnException(e)
    /\ UNCHANGED <<url, gets, response, titles, prices>>
    /\ UNCHANGED <<aggVars, titleVars>>

(***************************************************************************)
(* Keyword aggregator: analyze_keywords, src/text_analyzer.py.             *)
(* A dict is the sequence of its <<key, value>> items in insertion order.  *)
(***************************************************************************)
RECURSIVE CounterAdd(_, _)
CounterAdd(items, tok) ==
    IF items = <<>> THEN <<<<tok, 1>>>>
    ELSE IF Head(items)[1] = tok
         THEN <<<<tok, Head(items)[2] + 1>>>> \o Tail(items)
         ELSE <<Head(items)>> \o CounterAdd(Tail(items), tok)

\* Counter(tokens).items(): keys in order of first occurrence
RECURSIVE Counter(_)
Counter(toks) ==
    IF toks = <<>> THEN <<>>
    ELSE CounterAdd(Counter(SubSeq(toks, 1, Len(toks) - 1)), toks[Len(toks)])

\* x goes before the first item whose count is not larger: equal counts reversed
RECURSIVE InsertDesc_reversedTies(_, _)
InsertDesc_reversedTies(sorted, x) ==
    IF sorted = <<>> THEN <<x>>
    ELSE IF Head(sorted)[2] > x[2]
         THEN <<Head(sorted)>> \o InsertDesc_reversedTies(Tail(sorted), x)
         ELSE <<x>> \o sorted

\* x goes behind every item whose count is at least its own
RECURSIVE InsertDesc(_, _)
InsertDesc(sorted, x) ==
    IF sorted = <<>> THEN <<x>>
    ELSE IF Head(sorted)[2] >= x[2]
         THEN <<Head(sorted)>> \o InsertDesc(Tail(sorted), x)
         ELSE <<x>> \o sorted

\* sorted(items, key=lambda x: x[1], reverse=True): a stable sort
RECURSIVE SortedByFreq(_)
SortedByFreq(items) ==
    IF items = <<>> THEN <<>>
    ELSE InsertDesc(SortedByFreq(SubSeq(items, 1, Len(items) - 1)),
                    items[Len(items)])

\* dict(sorted(Counter(tokens).items(), ...))
analyze_keywords(toks) == SortedByFreq(Counter(toks))

Tokens == {"dvd", "anime", "ray"}

AnalyzeKeywords ==
    /\ agg_pc = "start"
    /\ keyword_freq' = analyze_keywords(tokens)
    /\ agg_pc' = "done"
    /\ UNCHANGED tokens
    /\ UNCHANGED <<scrapeVars, titleVars>>

(***************************************************************************)
(* Title synthesizer: suggest_title, src/text_analyzer.py.                 *)
(***************************************************************************)
LowerSeq == <<"a", "b", "c", "d", "e", "f", "g", "h", "i", "j", "k", "l", "m",
              "n", "o", "p", "q", "r", "s", "t", "u", "v", "w", "x", "y", "z">>

UpperSeq == <<"A", "B", "C", "D", "E", "F", "G", "H", "I", "J", "K", "L", "M",
              "N", "O", "P", "Q", "R", "S", "T", "U", "V", "W", "X", "Y", "Z">>

IndexIn(seq, c) == CHOOSE i \in DOMAIN seq : seq[i] = c

IsLower(c) == \E i \in DOMAIN LowerSeq : LowerSeq[i] = c

IsUpper(c) == \E i \in DOMAIN UpperSeq : UpperSeq[i] = c

IsCased(c) == IsLower(c) \/ IsUpper(c) \/ c = "eszett"

\* the title-case form of one character: U+00DF becomes "Ss"
TitleChar(c) ==
    IF c = "eszett" THEN <<"S", "s">>
    ELSE IF IsLower(c) THEN <<UpperSeq[IndexIn(LowerSeq, c)]>>
    ELSE <<c>>

\* the lower-case form of one character
LowerChar(c) ==
    IF IsUpper(c) THEN <<LowerSeq[IndexIn(UpperSeq, c)]>> ELSE <<c>>

\* str.title(): a cased character is title-cased at the start of a word and
\* lower-cased inside it
RECURSIVE TitleFrom(_, _)
TitleFrom(s, previous_is_cased) ==
    IF s = <<>> THEN <<>>
    ELSE LET c == Head(s)
         IN IF IsCased(c)
            THEN (IF previous_is_cased THEN LowerChar(c) ELSE TitleChar(c))
                     \o TitleFrom(Tail(s), TRUE)
            ELSE <<c>> \o TitleFrom(Tail(s), FALSE)

StrTitle(s) == TitleFrom(s, FALSE)

\* "".join(parts)
RECURSIVE Join(_)
Join(parts) == IF parts = <<>> THEN <<>> ELSE Head(parts) \o Join(Tail(parts))

\* the loop over sorted_keywords, with its break
RECURSIVE BuildParts(_, _, _, _)
BuildParts(sorted_keywords, title_parts, current_length, ml) ==
    IF sorted_keywords = <<>> THEN title_parts
    ELSE LET keyword == Head(sorted_keywords)[1]
             word_length == Len(keyword)
             space_needed == IF title_parts # <<>> THEN 1 ELSE 0
             comma_needed == IF title_parts # <<>> THEN 1 ELSE 0
             total_addition == word_length + space_needed + comma_needed
         IN IF current_length + total_addition <= ml
            THEN IF title_parts # <<>>
                 THEN BuildParts(Tail(sorted_keywords),
                                 title_parts \o <<<<",", " ">>, StrTitle(keyword)>>,
                                 current_length + 2 + word_length, ml)
                 ELSE BuildParts(Tail(sorted_keywords),
                                 <<StrTitle(keyword)>>,
                                 current_length + word_length, ml)
            ELSE title_parts

\* title = "".join(title_parts) of the top keywords
KeywordTitle(freq, ml) ==
    LET top_keywords == Take(freq, TopN)
        sorted_keywords == SortedByFreq(top_keywords)
    IN Join(BuildParts(sorted_keywords, <<>>, 0, ml))

common_suffixes ==
    << <<" ", "-", " ", "N", "e", "w">>,
       <<" ", "-", " ", "L", "o", "t">>,
       <<" ", "-", " ", "S", "a", "l", "e">> >>

\* a suffix wanted as soon as 15 characters are left
SuffixWanted_atLeast(t, ml) == Len(t) <= ml - SuffixRoom

\* if len(title) < max_length - 15
SuffixWanted(t, ml) == Len(t) < ml - SuffixRoom

\* for suffix in common_suffixes: the first that fits is appended
RECURSIVE AddSuffix(_, _, _)
AddSuffix(t, suffixes, ml) ==
    IF suffixes = <<>> THEN t
    ELSE IF Len(t) + Len(Head(suffixes)) <= ml THEN t \o Head(suffixes)
    ELSE AddSuffix(t, Tail(suffixes), ml)

WithSuffix(t, ml) ==
    IF SuffixWanted(t, ml) THEN AddSuffix(t, common_suffixes, ml) ELSE t

\* return "Could not generate title suggestion"
Fallback ==
    <<"C", "o", "u", "l", "d", " ", "n", "o", "t", " ",
      "g", "e", "n", "e", "r", "a", "t", "e", " ",
      "t", "i", "t", "l", "e", " ",
      "s", "u", "g", "g", "e", "s", "t", "i", "o", "n">>

SuggestTitle ==
    /\ st_pc = "start"
    /\ title' = KeywordTitle(st_freq, max_length)
    /\ suggested' = WithSuffix(KeywordTitle(st_freq, max_length), max_length)
    /\ st_pc' = "done"
    /\ UNCHANGED <<st_freq, max_length>>
    /\ UNCHANGED <<scrapeVars, aggVars>>

(***************************************************************************)
(* Inputs of suggest_title.                                                *)
(***************************************************************************)
Keywords ==
    { <<"a">>,
      <<"d", "v", "d">>,
      <<"eszett", "a">>,
      <<"B", "l", "u">>,
      <<"a", "n", "i", "m", "e">> }

Injective(f) == \A i, j \in DOMAIN f : i # j => f[i] # f[j]

ShortFreqs ==
    UNION { { [i \in 1..n |-> <<ks[i], fs[i]>>] :
                ks \in {k \in [1..n -> Keywords] : Injective(k)},
                fs \in [1..n -> 1..MaxFreq] } : n \in 0..MaxKeys }

\* n distinct one-letter keywords
LongFreqs ==
    UNION { { [i \in 1..n |-> <<(<<LowerSeq[i]>>), 1>>],
              [i \in 1..n |-> <<(<<LowerSeq[i]>>), i>>],
              [i \in 1..n |-> <<(<<LowerSeq[i]>>), (i % 2) + 1>>] } :
            n \in TopN..LongKeys }

Freqs == ShortFreqs \cup LongFreqs

AggIdle == tokens = <<>> /\ keyword_freq = <<>> /\ agg_pc = "idle"

TitleIdle ==
    /\ st_freq = <<>>
    /\ max_length = 0
    /\ title = <<>>
    /\ suggested = <<>>
    /\ st_pc = "idle"

ScrapeIdle ==
    /\ url = <<>>
    /\ attempt = 0
    /\ pc = "idle"
    /\ gets = 0
    /\ response = NoResponse
    /\ log = <<>>
    /\ titles = <<>>
    /\ prices = <<>>
    /\ error = NoError

Init ==
    /\ url \in Urls
    /\ attempt = 0
    /\ pc = "loop"
    /\ gets = 0
    /\ response = NoResponse
    /\ log = <<>>
    /\ titles = <<>>
    /\ prices = <<>>
    /\ error = NoError
    /\ AggIdle
    /\ TitleIdle

Next ==
    \/ GetConnError
    \/ GetHttpError
    \/ GetOtherError
    \/ GetOk
    \/ Extract
    \/ ProcessFail

Spec == Init /\ [][Next]_vars

InitAgg ==
    /\ tokens \in SeqsUpTo(Tokens, MaxTokens)
    /\ keyword_freq = <<>>
    /\ agg_pc = "start"
    /\ ScrapeIdle
    /\ TitleIdle

NextAgg == AnalyzeKeywords

SpecAgg == InitAgg /\ [][NextAgg]_vars

InitTitle ==
    /\ st_freq \in Freqs
    /\ max_length \in 0..MaxLength
    /\ title = <<>>
    /\ suggested = <<>>
    /\ st_pc = "start"
    /\ ScrapeIdle
    /\ AggIdle

NextTitle == SuggestTitle

SpecTitle == InitTitle /\ [][NextTitle]_vars

(***************************************************************************)
(* Properties of the fetcher and the extractor.                            *)
(***************************************************************************)
RequestFailures(l) == Cardinality({i \in DOMAIN l : l[i].kind = "request"})

Extracted(items) ==
    LET r == ScrapeItems(items)
    IN [titles |-> Take(r.titles, MaxResults), prices |-> Take(r.prices, MaxResults)]

\* C1: once an attempt has succeeded, the GET requests issued are the failed
\* attempts before it plus that one, at most max_retries, and no further one
\* is issued; the call returns what was extracted from that response.
C1_StopsAtFirstSuccess ==
    response.status = "ok" =>
        /\ gets = RequestFailures(log) + 1
        /\ gets = attempt + 1
        /\ gets <= max_retries
        /\ pc \in {"parse", "returned", "raised"}
        /\ pc = "returned" =>
              /\ error = NoError
              /\ \A i \in DOMAIN log : log[i].kind = "request"
              /\ titles = Extracted(response.items).titles
              /\ prices = Extracted(response.items).prices

\* fail, fail, succeed: three requests and a normal return with records
C1_Witness ==
    /\ pc = "returned"
    /\ RequestFailures(log) = 2
    /\ gets = 3
    /\ titles # <<>>

\* C2: never more than max_retries GET requests; when all max_retries
\* attempts fail with a transport error the call has raised the fetch error
\* that carries the attempt count and the text of the last failure, and has
\* returned nothing; the fetch error is raised in no other case.
C2_AllAttemptsFail ==
    /\ gets <= max_retries
    /\ RequestFailures(log) = max_retries =>
          /\ pc = "raised"
          /\ gets = max_retries
          /\ error = [kind |-> "fetch", attempts |-> max_retries,
                      text |-> log[max_retries].text]
          /\ titles = <<>>
          /\ prices = <<>>
    /\ error.kind = "fetch" => RequestFailures(log) = max_retries

\* three failures whose last error text differs from the one before
C2_Witness ==
    /\ error.kind = "fetch"
    /\ Len(log) = max_retries
    /\ log[2].text # log[3].text
    /\ log[1].text # log[3].text

\* what the claims expect of the price of an item node
HasDecimalPattern(s) ==
    \E i \in 2..(Len(s) - 2) :
        /\ s[i] = "."
        /\ s[i - 1] \in Digits \cup {","}
        /\ s[i + 1] \in Digits
        /\ s[i + 2] \in Digits

ExpectedCents(s) ==
    CASE s = Price_999 -> 999
      [] s = Price_Big -> 1234567
      [] s = Price_Zero -> 0

PriceOfNode(p, price_elem) ==
    IF price_elem.present /\ HasDecimalPattern(price_elem.text)
    THEN p.some /\ p.cents = ExpectedCents(price_elem.text)
    ELSE ~p.some /\ p = None

KeptByCode(n) == TitleAccepted(n.title)

\* C3: the titles and the prices returned have the same length, and entry i
\* of each comes from the same item node, the i-th node that passed the
\* title test; the price is the node's price, or the absent marker when the
\* price element is missing or holds no decimal pattern.
C3_Aligned ==
    pc = "returned" =>
        LET K == Take(SelectSeq(response.items, KeptByCode), MaxResults)
        IN /\ Len(titles) = Len(prices)
           /\ Len(titles) = Len(K)
           /\ Len(titles) <= MaxResults
           /\ \A i \in DOMAIN K :
                 /\ titles[i] = Strip(K[i].title.text)
                 /\ PriceOfNode(prices[i], K[i].price)

\* a page of more than 60 items, truncated, with present and absent prices
C3_Witness ==
    /\ pc = "returned"
    /\ Len(response.items) > MaxResults
    /\ Len(titles) = MaxResults
    /\ \E i \in DOMAIN prices : ~prices[i].some
    /\ \E i \in DOMAIN prices : prices[i].some

\* a short page with a skipped node before a kept one, and a malformed price
C3_WitnessSkipped ==
    /\ pc = "returned"
    /\ Len(response.items) = 2
    /\ ~KeptByCode(response.items[1])
    /\ response.items[1].price.present
    /\ Len(prices) = 1
    /\ prices[1] = None
    /\ response.items[2].price.present

\* C4: every title returned is a non-empty string.
C4_TitlesNonEmpty ==
    pc = "returned" => \A i \in DOMAIN titles : titles[i] # <<>>

\* C8: an exception that is no RequestException ends the call at once: it is
\* the last exception raised, the call has raised the wrapped error with its
\* text, and the GET requests issued are those of the attempts up to it.
C8_OtherExceptionNoRetry ==
    \A i \in DOMAIN log :
        log[i].kind = "other" =>
            /\ i = Len(log)
            /\ pc = "raised"
            /\ error = [kind |-> "process", attempts |-> 0, text |-> log[i].text]
            /\ gets = attempt + 1
            /\ gets = RequestFailures(log) + 1
            /\ titles = <<>>
            /\ prices = <<>>

\* the exception raised while processing the third response
C8_Witness ==
    /\ error.kind = "process"
    /\ attempt = max_retries - 1
    /\ response.status = "ok"
    /\ gets = max_retries

\* the exception raised by the first request
C8_WitnessFirst ==
    /\ error.kind = "process"
    /\ attempt = 0
    /\ response.status = "none"
    /\ gets = 1

NotDroppedEqual(n) == n.title.present /\ n.title.text # Placeholder

NotDroppedContains(n) == n.title.present /\ ~Contains(Placeholder, n.title.text)

RecordsOf(nodes) ==
    [i \in 1..Min(Len(nodes), MaxResults) |-> Strip(nodes[i].title.text)]

\* C9 as stated: the records are those of the nodes that have a title
\* sub-node whose text differs from the placeholder phrase (first 60).
C9_DroppedOnlyIfEqual ==
    pc = "returned" =>
        titles = RecordsOf(SelectSeq(response.items, NotDroppedEqual))

\* C9 amended: the records are those of the nodes that have a title sub-node
\* whose text does not contain the placeholder phrase (first 60).
C9_DroppedIfContains ==
    pc = "returned" =>
        titles = RecordsOf(SelectSeq(response.items, NotDroppedContains))

\* a node whose longer title contains the placeholder phrase, next to a kept one
C9_Witness ==
    /\ pc = "returned"
    /\ \E i \in DOMAIN response.items :
          /\ response.items[i].title.present
          /\ response.items[i].title.text # Placeholder
          /\ Contains(Placeholder, response.items[i].title.text)
    /\ Len(titles) = 1

(***************************************************************************)
(* Properties of the keyword aggregator.                                   *)
(***************************************************************************)
Occurrences(toks, k) == Cardinality({i \in DOMAIN toks : toks[i] = k})

FirstIndex(toks, k) == SetMin({i \in DOMAIN toks : toks[i] = k})

\* C7: the mapping has one key per distinct token, each with its number of
\* occurrences; the keys are listed by descending count, and keys of equal
\* count in the order of their first occurrence in the token sequence.
C7_SortedStable ==
    agg_pc = "done" =>
        /\ {keyword_freq[i][1] : i \in DOMAIN keyword_freq}
              = {tokens[i] : i \in DOMAIN tokens}
        /\ \A i, j \in DOMAIN keyword_freq :
              i < j =>
                 /\ keyword_freq[i][1] # keyword_freq[j][1]
                 /\ keyword_freq[i][2] >= keyword_freq[j][2]
                 /\ keyword_freq[i][2] = keyword_freq[j][2] =>
                       FirstIndex(tokens, keyword_freq[i][1])
                           < FirstIndex(tokens, keyword_freq[j][1])
        /\ \A i \in DOMAIN keyword_freq :
              keyword_freq[i][2] = Occurrences(tokens, keyword_freq[i][1])

\* a tie between two keys, and a key moved ahead of one that occurred earlier
C7_Witness ==
    /\ agg_pc = "done"
    /\ Len(keyword_freq) = 3
    /\ keyword_freq[2][2] = keyword_freq[3][2]
    /\ keyword_freq[1][2] > keyword_freq[2][2]
    /\ FirstIndex(tokens, keyword_freq[1][1]) > FirstIndex(tokens, keyword_freq[3][1])

(***************************************************************************)
(* Properties of the title synthesizer.                                    *)
(***************************************************************************)
\* C5: the string returned is at most max_length characters long.
C5_LengthBounded ==
    st_pc = "done" => Len(suggested) <= max_length

\* C6: for the empty ranking the fallback string is returned.
C6_EmptyGivesFallback ==
    (st_pc = "done" /\ st_freq = <<>>) => suggested = Fallback

SuffixFits(k, t, ml) == Len(t) + Len(common_suffixes[k]) <= ml

\* s is t followed by the first suffix of the list that fits in ml
FirstFittingAppended(s, t, ml) ==
    \E k \in DOMAIN common_suffixes :
        /\ SuffixFits(k, t, ml)
        /\ \A j \in 1..(k - 1) : ~SuffixFits(j, t, ml)
        /\ s = t \o common_suffixes[k]

\* C10 as stated: the suffix is appended exactly when at least 15 characters
\* are unused, and it is the first of the list that fits.
C10_SuffixAtLeast15 ==
    st_pc = "done" =>
        IF max_length - Len(title) >= SuffixRoom
        THEN FirstFittingAppended(suggested, title, max_length)
        ELSE suggested = title

\* C10 amended: the suffix is appended exactly when more than 15 characters
\* are unused, and it is the first of the list that fits.
C10_SuffixMoreThan15 ==
    st_pc = "done" =>
        IF max_length - Len(title) > SuffixRoom
        THEN FirstFittingAppended(suggested, title, max_length)
        ELSE suggested = title

\* 16 characters unused after a keyword list of two: the suffix is appended
C10_Witness ==
    /\ st_pc = "done"
    /\ Len(st_freq) = 2
    /\ title # <<>>
    /\ max_length - Len(title) = SuffixRoom + 1
    /\ suggested # title

\* exactly 15 characters unused: the title is returned as it is
C10_WitnessBoundary ==
    /\ st_pc = "done"
    /\ title # <<>>
    /\ max_length - Len(title) = SuffixRoom
    /\ suggested = title

====
